---- MODULE Spec2Model ----
(***************************************************************************)
(* duo-enforcer: the polling actor (src/duo_driver.rs), the status it      *)
(* owns (src/lib.rs), the progress computation of the remote client        *)
(* (src/duolingo.rs), the web-layer command senders (src/ui.rs) and the    *)
(* handlers of the actor-less HTTP server (src/main.rs).                   *)
(*                                                                         *)
(* Option<T> is a sequence of length at most one: << >> is None and        *)
(* <<x>> is Some(x).  A formatted error string format!("prefix: {e}") is   *)
(* the record [text |-> prefix, e |-> the error], a fixed string has       *)
(* e = "".                                                                 *)
(***************************************************************************)
EXTENDS Integers, Sequences, FiniteSets, TLC

VARIABLES
    pc,         \* where the actor thread is: "init", "loop" (in recv_deadline),
                \* "handle" (in a match arm, before it locks), "locked" (in the
                \* Ok arm of poll_duo, holding the lock), "stopped"
    duo,        \* the actor's client, Option<Duolingo>
    st,         \* SHARED_STATE
    lock,       \* who holds the mutex of SHARED_STATE
    committed,  \* SHARED_STATE as the last unlock left it
    chan,       \* the commands queued in the channel, oldest first
    tx,         \* the sender: "root" (held by the creator of the channel),
                \* "installed" (in CMD_TX) or "dropped"
    next_id,    \* the stamp of the next command the channel accepts
    handled,    \* the stamp of the command the actor received last
    cur,        \* what the actor is handling
    active,     \* the polls and command handlings in execution
    deadline,   \* next_poll - Instant::now(), in seconds
    done_file,  \* the content of ~/.cache/duo-done, if it exists
    prog,       \* the last Ok(prog) of get_daily_xp_progress
    event,      \* the step taken last
    calc,       \* the last evaluation of a pure computation (cutoff, filter)
    api,        \* main.rs: the credential of app.duo, Option
    api_lock,   \* main.rs: the request holding the mutex of app.duo, 0 if free
    req,        \* main.rs: the requests in flight and their responses
    token_file, \* main.rs: the content of ~/.duo_jwt_token, if it exists
    is_finished,\* main.rs: whether ~/.duo_done exists
    serving,    \* main.rs: "serving" (axum::serve accepts requests), "draining"
                \* (the shutdown signal has come) or "stopped" (serve returned)
    exit_fs     \* main.rs: how the block_all after serve ended ("none" before)

actorVars == <<pc, duo, st, lock, committed, chan, tx, next_id, handled, cur,
               active, deadline, done_file, prog, event>>

httpVars == <<api, api_lock, req, token_file, is_finished, serving, exit_fs>>

vars == <<pc, duo, st, lock, committed, chan, tx, next_id, handled, cur,
          active, deadline, done_file, prog, event, calc, api, api_lock, req,
          token_file, is_finished, serving, exit_fs>>

(* ------------------------------ bounds --------------------------------- *)

\* epoch seconds run over 0..MaxTime
MaxTime == 2
\* capacity of the bounded command channel
ChanCap == 2
\* midnights of the cutoff computation run over the hours 0..MaxStamp
MaxStamp == 10
\* HTTP requests in flight at a time
MaxReqs == 2
\* length of the fetched lists the filter is evaluated on
MaxGains == 3

(* ----------------------------- constants ------------------------------- *)

\* let xp_req = 50; // daily XP requirement
xp_req == 50
\* next_poll += Duration::from_secs(30)
PollInterval == 30

None == << >>
Some(x) == <<x>>

Time == 0 .. MaxTime
\* the clock covers one whole day and the first second of the next
DayLen == MaxTime
XpValues == {25}
XpGoals == {20}

\* DUO_JWT: unset ("", which does not decode) or a token
EnvJwts == {"", "jwtA"}
\* the tokens the web layer submits
WebJwts == {"jwtB"}

(* ------------------------------ lib.rs --------------------------------- *)

Lesson == [time : Time, xp : XpValues]

\* the xpGains lists the remote returns: chronological, at most one lesson
\* a second, from second t on
RECURSIVE GainsFrom(_)
GainsFrom(t) ==
    IF t > MaxTime THEN {<< >>}
    ELSE LET later == GainsFrom(t + 1)
         IN  later \cup {<<[time |-> t, xp |-> x]>> \o l : x \in XpValues, l \in later}

LessonLists == GainsFrom(0)

\* impl Default for SharedState
SharedStateDefault ==
    [blocked |-> TRUE, xp_today |-> 0, xp_goal |-> 0, lessons |-> << >>,
     last_error |-> None]

\* enum ActorCommand
UpdateJWT(jwt) == [cmd |-> "UpdateJWT", jwt |-> jwt]
ForcePoll == [cmd |-> "ForcePoll", jwt |-> ""]
Shutdown == [cmd |-> "Shutdown", jwt |-> ""]

(* ---------------------------- duolingo.rs ------------------------------ *)

Ok(v) == [ok |-> TRUE, val |-> v]
Err(e) == [ok |-> FALSE, val |-> e]

\* the subject the token claims; "" has no decodable claims
JwtDecodes(jwt) == jwt # ""

\* Duolingo::new: decode the subject, then set_username and check_auth
\* over the network; net is the outcome of those calls
DuolingoNew(jwt, net) ==
    IF ~JwtDecodes(jwt) THEN Err("Failed to decode JWT's sub")
    ELSE IF net = "ok" THEN Ok([jwt |-> jwt, user_id |-> jwt])
    ELSE Err(net)

NewOutcomes == {"ok", "check_auth failed"}

\* the JSON body of the progress request
RespData == [xp_goal : XpGoals, xp_gains : LessonLists, updated_timestamp : Time]

\* Local::now().format("%Y-%m-%d")
TodayStr(now) == now \div DayLen

\* today.and_hms_opt(0, 0, 0): midnight of the local date
LocalMidnight(now) == (now \div DayLen) * DayLen

\* a cutoff that always trusts the remote midnight
CutoffTs_AlwaysReported(reported_midnight, midnight) ==
    reported_midnight

\* the cutoff of get_daily_xp_progress
CutoffTs(reported_midnight, midnight) ==
    LET time_discrepancy == midnight - reported_midnight
    IN  IF time_discrepancy < 0 THEN reported_midnight
        ELSE reported_midnight + time_discrepancy

\* a filter that counts a lesson at the cutoff as today's
RECURSIVE Filter_Inclusive(_, _)
Filter_Inclusive(gains, cutoff_ts) ==
    IF gains = << >> THEN << >>
    ELSE IF Head(gains).time >= cutoff_ts
         THEN <<Head(gains)>> \o Filter_Inclusive(Tail(gains), cutoff_ts)
         ELSE Filter_Inclusive(Tail(gains), cutoff_ts)

\* xp_gains.into_iter().filter(|l| l.time > cutoff_ts).collect()
RECURSIVE Filter(_, _)
Filter(gains, cutoff_ts) ==
    IF gains = << >> THEN << >>
    ELSE IF Head(gains).time > cutoff_ts
         THEN <<Head(gains)>> \o Filter(Tail(gains), cutoff_ts)
         ELSE Filter(Tail(gains), cutoff_ts)

RECURSIVE SumXp(_)
SumXp(lessons) ==
    IF lessons = << >> THEN 0 ELSE Head(lessons).xp + SumXp(Tail(lessons))

\* get_daily_xp_progress summing the gains before they are filtered
DailyXPProgress_SumAll(daily, now) ==
    LET cutoff_ts == CutoffTs(daily.updated_timestamp, LocalMidnight(now))
    IN  [xp_goal |-> daily.xp_goal,
         lessons_today |-> Filter(daily.xp_gains, cutoff_ts),
         xp_today |-> SumXp(daily.xp_gains)]

\* Duolingo::get_daily_xp_progress on a 200 response with body daily, read
\* at local time now
DailyXPProgress(daily, now) ==
    LET cutoff_ts == CutoffTs(daily.updated_timestamp, LocalMidnight(now))
        lessons_today == Filter(daily.xp_gains, cutoff_ts)
    IN  [xp_goal |-> daily.xp_goal,
         lessons_today |-> lessons_today,
         xp_today |-> SumXp(lessons_today)]

FetchErrors == {"daily xp fetch returned status"}

\* what a successful get_daily_xp_progress call can return
FetchResults ==
    {DailyXPProgress(daily, now) : daily \in RespData, now \in Time}

(* ------------------------------- main.rs ------------------------------- *)

\* the requests the server works on at a time
Reqs == 1 .. MaxReqs
\* the tokens posted to /api/update_jwt
PostedJwts == {"", "jwtC"}

\* const DAILY_XP_GOAL: u32 = 100
DAILY_XP_GOAL == 100

\* what get_daily_progress reports as xp_today
StatusXps == {0, 99, 100}

\* a request slot: the handler it is routed to, where the handler is, the
\* payload, how the credential update and the file operation (the write of
\* the token file, the removal or creation of the done file) ended, the
\* Status computed, and the status code sent (0: none yet)
IdleReq == [route |-> "none", pc |-> "idle", new_jwt |-> "", update |-> "none",
            write |-> "none", status |-> None, resp |-> 0]


(* --------------------------- duo_driver.rs ----------------------------- *)

Msg(text, e) == [text |-> text, e |-> e]

NoClientMsg == Msg("No duolingo client available (JWT init failed)", "")
UpdatedOkMsg == Msg("JWT updated OK", "")

\* the clock advances by a poll interval at a time
TickLen == PollInterval
\* the clock stops at the deadline, and commands are taken while the deadline
\* is at most two intervals ahead
MaxAhead == 2 * PollInterval

\* commands are stamped in the order the channel accepts them
IdMod == ChanCap + 1
Stamp(c, id) == [cmd |-> c.cmd, jwt |-> c.jwt, id |-> id]

NoCmd == [cmd |-> "None", jwt |-> "", id |-> 0]
\* Err(RecvTimeoutError::Timeout) as the thing being handled
TimerCmd == [cmd |-> "Timer", jwt |-> "", id |-> 0]

Init ==
    /\ pc = "init"
    /\ duo = None
    /\ st = SharedStateDefault
    /\ lock = "free"
    /\ committed = SharedStateDefault
    /\ chan = << >>
    /\ tx = "root"
    /\ next_id = 0
    /\ handled = IdMod - 1
    /\ cur = NoCmd
    /\ active = {}
    /\ deadline = 0
    /\ done_file = None
    /\ prog = None
    /\ event = "none"
    /\ calc = None
    /\ api = None
    /\ api_lock = 0
    /\ req = [r \in Reqs |-> IdleReq]
    /\ token_file = None
    /\ is_finished = FALSE
    /\ serving = "serving"
    /\ exit_fs = "none"

\* a startup that drops the init error
Startup_DropsError ==
    /\ pc = "init"
    /\ lock = "free"
    /\ \E initial_jwt \in EnvJwts, net \in NewOutcomes :
         LET r == DuolingoNew(initial_jwt, net)
         IN  /\ duo' = IF r.ok THEN Some(r.val) ELSE None
             /\ event' = IF r.ok THEN "InitOk" ELSE "InitFail"
    /\ st' = st
    /\ committed' = st'
    /\ pc' = "loop"
    /\ deadline' = 0
    /\ UNCHANGED <<lock, chan, tx, next_id, handled, cur, active, done_file, prog, calc, httpVars>>

\* spawn_actor_thread up to the loop: build the client from DUO_JWT, then
\* next_poll = Instant::now()
Startup ==
    /\ pc = "init"
    /\ lock = "free"
    /\ \E initial_jwt \in EnvJwts, net \in NewOutcomes :
         LET r == DuolingoNew(initial_jwt, net)
         IN  IF r.ok
             THEN /\ duo' = Some(r.val)
                  /\ st' = st
                  /\ event' = "InitOk"
             ELSE /\ duo' = None
                  /\ st' = [st EXCEPT !.last_error = Some(Msg("init error: ", r.val))]
                  /\ event' = "InitFail"
    /\ committed' = st'
    /\ pc' = "loop"
    /\ deadline' = 0
    /\ UNCHANGED <<lock, chan, tx, next_id, handled, cur, active, done_file, prog, calc, httpVars>>

\* a receive that takes the newest queued command
RecvCommand_TakesNewest ==
    /\ pc = "loop"
    /\ chan # << >>
    /\ deadline + PollInterval <= MaxAhead
    /\ cur' = chan[Len(chan)]
    /\ chan' = SubSeq(chan, 1, Len(chan) - 1)
    /\ handled' = chan[Len(chan)].id
    /\ active' = active \cup {chan[Len(chan)].cmd}
    /\ pc' = "handle"
    /\ event' = "Recv"
    /\ UNCHANGED <<duo, st, lock, committed, tx, next_id, deadline, done_file, prog, calc, httpVars>>

\* a receive that takes the lock of SHARED_STATE before the arm runs
RecvCommand_Locks ==
    /\ pc = "loop"
    /\ chan # << >>
    /\ deadline + PollInterval <= MaxAhead
    /\ cur' = Head(chan)
    /\ chan' = Tail(chan)
    /\ handled' = Head(chan).id
    /\ active' = active \cup {Head(chan).cmd}
    /\ pc' = "handle"
    /\ lock' = "actor"
    /\ event' = "Recv"
    /\ UNCHANGED <<duo, st, committed, tx, next_id, deadline, done_file, prog, calc, httpVars>>

\* rx.recv_deadline(next_poll) returns Ok(cmd): the oldest queued command
RecvCommand ==
    /\ pc = "loop"
    /\ chan # << >>
    /\ deadline + PollInterval <= MaxAhead
    /\ cur' = Head(chan)
    /\ chan' = Tail(chan)
    /\ handled' = Head(chan).id
    /\ active' = active \cup {Head(chan).cmd}
    /\ pc' = "handle"
    /\ event' = "Recv"
    /\ UNCHANGED <<duo, st, lock, committed, tx, next_id, deadline, done_file, prog, calc, httpVars>>

\* a timer that fires while a command is being handled
RecvTimeout_WhileHandling ==
    /\ pc \in {"loop", "handle"}
    /\ chan = << >>
    /\ tx # "dropped"
    /\ deadline <= 0
    /\ cur' = TimerCmd
    /\ active' = active \cup {"Timer"}
    /\ pc' = "handle"
    /\ event' = "RecvTimeout"
    /\ UNCHANGED <<duo, st, lock, committed, chan, tx, next_id, handled, deadline,
                   done_file, prog, calc, httpVars>>

\* rx.recv_deadline(next_poll) returns Err(Timeout): nothing is queued and
\* the deadline has passed
RecvTimeout ==
    /\ pc = "loop"
    /\ chan = << >>
    /\ tx # "dropped"
    /\ deadline <= 0
    /\ cur' = TimerCmd
    /\ active' = active \cup {"Timer"}
    /\ pc' = "handle"
    /\ event' = "RecvTimeout"
    /\ UNCHANGED <<duo, st, lock, committed, chan, tx, next_id, handled, deadline,
                   done_file, prog, calc, httpVars>>

\* a disconnection that is recorded as an error
RecvDisconnected_RecordsError ==
    /\ pc = "loop"
    /\ chan = << >>
    /\ tx = "dropped"
    /\ pc' = "stopped"
    /\ st' = [st EXCEPT !.last_error = Some(Msg("channel disconnected", ""))]
    /\ committed' = st'
    /\ event' = "Disconnected"
    /\ UNCHANGED <<duo, lock, chan, tx, next_id, handled, cur, active,
                   deadline, done_file, prog, calc, httpVars>>

\* rx.recv_deadline(next_poll) returns Err(Disconnected): nothing is queued
\* and no sender is left; the thread returns
RecvDisconnected ==
    /\ pc = "loop"
    /\ chan = << >>
    /\ tx = "dropped"
    /\ pc' = "stopped"
    /\ event' = "Disconnected"
    /\ UNCHANGED <<duo, st, lock, committed, chan, tx, next_id, handled, cur, active,
                   deadline, done_file, prog, calc, httpVars>>

\* the end of a loop iteration: next_poll += Duration::from_secs(30)
IterationDone ==
    /\ pc' = "loop"
    /\ active' = active \ {cur.cmd}
    /\ cur' = NoCmd
    /\ deadline' = deadline + PollInterval

\* a poll without a client that reports nothing
PollNoClient_Silent(kind) ==
    /\ duo = None
    /\ lock = "free"
    /\ st' = st
    /\ committed' = st'
    /\ event' = kind \o "NoClient"
    /\ IterationDone
    /\ UNCHANGED <<lock, done_file, prog>>

\* poll_duo, else branch: no client
PollNoClient(kind) ==
    /\ duo = None
    /\ lock = "free"
    /\ st' = [st EXCEPT !.last_error = Some(NoClientMsg)]
    /\ committed' = st'
    /\ event' = kind \o "NoClient"
    /\ IterationDone
    /\ UNCHANGED <<lock, done_file, prog>>

\* a successful poll that does not clear last_error
PollOk_KeepsError(kind) ==
    /\ duo # None
    /\ lock = "free"
    /\ \E p \in FetchResults :
         /\ prog' = Some(p)
         /\ st' = [st EXCEPT !.xp_goal = p.xp_goal,
                             !.xp_today = p.xp_today,
                             !.lessons = p.lessons_today]
    /\ lock' = "actor"
    /\ pc' = "locked"
    /\ event' = kind \o "Locked"
    /\ UNCHANGED <<committed, cur, active, deadline, done_file>>

\* poll_duo, Ok(prog) branch up to st.last_error = None: the fetch has
\* returned, the lock is taken and the snapshot is copied
PollOk(kind) ==
    /\ duo # None
    /\ lock = "free"
    /\ \E p \in FetchResults :
         /\ prog' = Some(p)
         /\ st' = [st EXCEPT !.xp_goal = p.xp_goal,
                             !.xp_today = p.xp_today,
                             !.lessons = p.lessons_today,
                             !.last_error = None]
    /\ lock' = "actor"
    /\ pc' = "locked"
    /\ event' = kind \o "Locked"
    /\ UNCHANGED <<committed, cur, active, deadline, done_file>>

\* a failed poll that unblocks (fails open)
PollErr_FailOpen(kind) ==
    /\ duo # None
    /\ lock = "free"
    /\ \E e \in FetchErrors :
         st' = [st EXCEPT !.last_error = Some(Msg("Poll error: ", e)),
                          !.blocked = FALSE]
    /\ committed' = st'
    /\ event' = kind \o "Fail"
    /\ IterationDone
    /\ UNCHANGED <<lock, done_file, prog>>

\* a failed poll that wipes the status
PollErr_Wipes(kind) ==
    /\ duo # None
    /\ lock = "free"
    /\ \E e \in FetchErrors :
         st' = [SharedStateDefault EXCEPT !.last_error = Some(Msg("Poll error: ", e))]
    /\ committed' = st'
    /\ event' = kind \o "Fail"
    /\ IterationDone
    /\ UNCHANGED <<lock, done_file, prog>>

\* poll_duo, Err(e) branch
PollErr(kind) ==
    /\ duo # None
    /\ lock = "free"
    /\ \E e \in FetchErrors :
         st' = [st EXCEPT !.last_error = Some(Msg("Poll error: ", e))]
    /\ committed' = st'
    /\ event' = kind \o "Fail"
    /\ IterationDone
    /\ UNCHANGED <<lock, done_file, prog>>

\* poll_duo, by the kind of poll ("ForcePoll" or "Timer")
poll_duo(kind) ==
    \/ PollNoClient(kind)
    \/ PollOk(kind)
    \/ PollErr(kind)

\* a poll that removes the done file when the quota is not met
PollOkEnd_RemovesMarker ==
    /\ pc = "locked"
    /\ LET p == prog[1]
           met == p.xp_today >= xp_req
       IN  \E now \in Time, write_ok \in (IF met THEN BOOLEAN ELSE {TRUE}) :
             /\ st' = [st EXCEPT !.blocked = p.xp_today < xp_req,
                                 !.last_error =
                                    IF met /\ ~write_ok
                                    THEN Some(Msg("Failed to write done file: ", "io"))
                                    ELSE st.last_error]
             /\ done_file' = IF met /\ write_ok THEN Some(TodayStr(now))
                             ELSE IF ~met THEN None
                             ELSE done_file
             /\ event' = cur.cmd \o (IF ~met THEN "Ok"
                                     ELSE IF write_ok THEN "OkWritten"
                                     ELSE "OkWriteFail")
    /\ committed' = st'
    /\ lock' = "free"
    /\ IterationDone
    /\ UNCHANGED <<duo, chan, tx, next_id, handled, prog, calc, httpVars>>

\* poll_duo, Ok(prog) branch from st.blocked on: the verdict, the write of
\* the done file when the quota is met, and the unlock
PollOkEnd ==
    /\ pc = "locked"
    /\ LET p == prog[1]
           met == p.xp_today >= xp_req
       IN  \E now \in Time, write_ok \in (IF met THEN BOOLEAN ELSE {TRUE}) :
             /\ st' = [st EXCEPT !.blocked = p.xp_today < xp_req,
                                 !.last_error =
                                    IF met /\ ~write_ok
                                    THEN Some(Msg("Failed to write done file: ", "io"))
                                    ELSE st.last_error]
             /\ done_file' = IF met /\ write_ok THEN Some(TodayStr(now))
                             ELSE done_file
             /\ event' = cur.cmd \o (IF ~met THEN "Ok"
                                     ELSE IF write_ok THEN "OkWritten"
                                     ELSE "OkWriteFail")
    /\ committed' = st'
    /\ lock' = "free"
    /\ IterationDone
    /\ UNCHANGED <<duo, chan, tx, next_id, handled, prog, calc, httpVars>>

\* an UpdateJWT whose failure drops the client (duo = Duolingo::new(..).ok())
HandleUpdateJWT_DropsClient ==
    /\ pc = "handle"
    /\ cur.cmd = "UpdateJWT"
    /\ lock = "free"
    /\ \E net \in NewOutcomes :
         LET r == DuolingoNew(cur.jwt, net)
         IN  IF r.ok
             THEN /\ duo' = Some(r.val)
                  /\ st' = [st EXCEPT !.last_error = Some(UpdatedOkMsg)]
                  /\ event' = "UpdateOk"
             ELSE /\ duo' = None
                  /\ st' = [st EXCEPT !.last_error = Some(Msg("JWT update failed: ", r.val))]
                  /\ event' = "UpdateFail"
    /\ committed' = st'
    /\ IterationDone
    /\ UNCHANGED <<lock, chan, tx, next_id, handled, done_file, prog, calc, httpVars>>

\* an UpdateJWT whose success clears last_error
HandleUpdateJWT_ClearsError ==
    /\ pc = "handle"
    /\ cur.cmd = "UpdateJWT"
    /\ lock = "free"
    /\ \E net \in NewOutcomes :
         LET r == DuolingoNew(cur.jwt, net)
         IN  IF r.ok
             THEN /\ duo' = Some(r.val)
                  /\ st' = [st EXCEPT !.last_error = None]
                  /\ event' = "UpdateOk"
             ELSE /\ duo' = duo
                  /\ st' = [st EXCEPT !.last_error = Some(Msg("JWT update failed: ", r.val))]
                  /\ event' = "UpdateFail"
    /\ committed' = st'
    /\ IterationDone
    /\ UNCHANGED <<lock, chan, tx, next_id, handled, done_file, prog, calc, httpVars>>

\* Ok(ActorCommand::UpdateJWT(new_jwt))
HandleUpdateJWT ==
    /\ pc = "handle"
    /\ cur.cmd = "UpdateJWT"
    /\ lock = "free"
    /\ \E net \in NewOutcomes :
         LET r == DuolingoNew(cur.jwt, net)
         IN  IF r.ok
             THEN /\ duo' = Some(r.val)
                  /\ st' = [st EXCEPT !.last_error = Some(UpdatedOkMsg)]
                  /\ event' = "UpdateOk"
             ELSE /\ duo' = duo
                  /\ st' = [st EXCEPT !.last_error = Some(Msg("JWT update failed: ", r.val))]
                  /\ event' = "UpdateFail"
    /\ committed' = st'
    /\ IterationDone
    /\ UNCHANGED <<lock, chan, tx, next_id, handled, done_file, prog, calc, httpVars>>

\* Ok(ActorCommand::ForcePoll)
HandleForcePoll ==
    /\ pc = "handle"
    /\ cur.cmd = "ForcePoll"
    /\ poll_duo("ForcePoll")
    /\ UNCHANGED <<duo, chan, tx, next_id, handled, calc, httpVars>>

\* Ok(ActorCommand::Shutdown): return
HandleShutdown ==
    /\ pc = "handle"
    /\ cur.cmd = "Shutdown"
    /\ pc' = "stopped"
    /\ active' = active \ {cur.cmd}
    /\ cur' = NoCmd
    /\ event' = "Shutdown"
    /\ UNCHANGED <<duo, st, lock, committed, chan, tx, next_id, handled, deadline,
                   done_file, prog, calc, httpVars>>

\* Err(RecvTimeoutError::Timeout)
Timeout ==
    /\ pc = "handle"
    /\ cur.cmd = "Timer"
    /\ poll_duo("Timer")
    /\ UNCHANGED <<duo, chan, tx, next_id, handled, calc, httpVars>>

\* time passes while the actor waits or is in a remote call
Tick ==
    /\ pc \in {"loop", "handle"}
    /\ deadline > 0
    /\ deadline' = deadline - TickLen
    /\ UNCHANGED <<event, pc, duo, st, lock, committed, chan, tx, next_id, handled, cur,
                   active, done_file, prog, calc, httpVars>>

(* -------------------------------- ui.rs -------------------------------- *)

\* a send that is queued for an actor that has stopped
try_send_command_AfterStop(cmd) ==
    /\ IF tx = "installed" /\ Len(chan) < ChanCap
       THEN /\ chan' = Append(chan, Stamp(cmd, next_id))
            /\ next_id' = (next_id + 1) % IdMod
            /\ event' = "Sent"
       ELSE /\ UNCHANGED <<chan, next_id>>
            /\ event' = "SendFailed"
    /\ UNCHANGED <<pc, duo, st, lock, committed, tx, handled, cur, active, deadline,
                   done_file, prog, calc, httpVars>>

\* try_send_command: CMD_TX must be set, and try_send on the bounded channel
\* fails when the channel is full or the receiver is gone
try_send_command(cmd) ==
    /\ IF tx = "installed" /\ pc # "stopped" /\ Len(chan) < ChanCap
       THEN /\ chan' = Append(chan, Stamp(cmd, next_id))
            /\ next_id' = (next_id + 1) % IdMod
            /\ event' = "Sent"
       ELSE /\ UNCHANGED <<chan, next_id>>
            /\ event' = "SendFailed"
    /\ UNCHANGED <<pc, duo, st, lock, committed, tx, handled, cur, active, deadline,
                   done_file, prog, calc, httpVars>>

\* a status read that does not take the lock
get_status_NoLock ==
    /\ event' = "GetStatus"
    /\ UNCHANGED <<pc, duo, st, lock, committed, chan, tx, next_id, handled, cur,
                   active, deadline, done_file, prog, calc, httpVars>>

\* get_status: SHARED_STATE.lock().unwrap().clone(); the value returned is
\* st of the step
get_status ==
    /\ lock = "free"
    /\ event' = "GetStatus"
    /\ UNCHANGED <<pc, duo, st, lock, committed, chan, tx, next_id, handled, cur,
                   active, deadline, done_file, prog, calc, httpVars>>

force_poll_now == try_send_command(ForcePoll)

update_jwt_server == \E new_jwt \in WebJwts : try_send_command(UpdateJWT(new_jwt))

(* --------------------------- the process root -------------------------- *)

\* CMD_TX.set(tx)
InstallCmdTx ==
    /\ tx = "root"
    /\ tx' = "installed"
    /\ UNCHANGED <<event, pc, duo, st, lock, committed, chan, next_id, handled, cur, active,
                   deadline, done_file, prog, calc, httpVars>>

\* the sender is dropped without having been installed
DropTx ==
    /\ tx = "root"
    /\ tx' = "dropped"
    /\ UNCHANGED <<event, pc, duo, st, lock, committed, chan, next_id, handled, cur, active,
                   deadline, done_file, prog, calc, httpVars>>

\* the process root asks the actor to stop
SendShutdown ==
    /\ tx # "dropped"
    /\ pc # "stopped"
    /\ Len(chan) < ChanCap
    /\ chan' = Append(chan, Stamp(Shutdown, next_id))
    /\ next_id' = (next_id + 1) % IdMod
    /\ event' = "ShutdownSent"
    /\ UNCHANGED <<pc, duo, st, lock, committed, tx, handled, cur, active, deadline,
                   done_file, prog, calc, httpVars>>

Next ==
    \/ Startup
    \/ RecvCommand
    \/ RecvTimeout
    \/ RecvDisconnected
    \/ HandleUpdateJWT
    \/ HandleForcePoll
    \/ HandleShutdown
    \/ Timeout
    \/ PollOkEnd
    \/ Tick
    \/ force_poll_now
    \/ update_jwt_server
    \/ get_status
    \/ InstallCmdTx
    \/ DropTx
    \/ SendShutdown

Spec == Init /\ [][Next]_vars

(* ------------------------------ events --------------------------------- *)

PollKinds == {"ForcePoll", "Timer"}
PollNotMet == {k \o "Ok" : k \in PollKinds}
PollWroteMarker == {k \o "OkWritten" : k \in PollKinds}
PollWriteFailed == {k \o "OkWriteFail" : k \in PollKinds}
PollSucceeded == PollNotMet \cup PollWroteMarker \cup PollWriteFailed
PollFailed == {k \o "Fail" : k \in PollKinds}
PollWithoutClient == {k \o "NoClient" : k \in PollKinds}
PollLocked == {k \o "Locked" : k \in PollKinds}

TypeOK ==
    /\ pc \in {"init", "loop", "handle", "locked", "stopped"}
    /\ st.blocked \in BOOLEAN
    /\ st.lessons \in LessonLists
    /\ st.xp_today \in Nat
    /\ Len(chan) <= ChanCap
    /\ lock \in {"free", "actor"}
    /\ deadline \in 0 .. (MaxAhead + PollInterval)

(* ------------------------ main.rs: the handlers ------------------------ *)

\* POST /api/update_jwt is routed to update_jwt, which awaits app.duo.lock()
update_jwt_request(r) ==
    /\ req[r].pc = "idle"
    /\ serving = "serving"
    /\ \E new_jwt \in PostedJwts :
         req' = [req EXCEPT ![r] = [IdleReq EXCEPT !.route = "update_jwt", !.pc = "wait",
                                               !.new_jwt = new_jwt]]
    /\ UNCHANGED <<api, api_lock, token_file, is_finished, serving, exit_fs, actorVars, calc>>

\* app.duo.lock().await returns the guard
update_jwt_lock(r) ==
    /\ req[r].pc = "wait"
    /\ api_lock = 0
    /\ api_lock' = r
    /\ req' = [req EXCEPT ![r].pc = "call"]
    /\ UNCHANGED <<api, token_file, is_finished, serving, exit_fs, actorVars, calc>>

\* duo.update_jwt(&payload.new_jwt).await: on Err the handler returns
\* internal_error and the guard is dropped
update_jwt_call(r) ==
    /\ req[r].pc = "call"
    /\ \E net \in NewOutcomes :
         LET res == DuolingoNew(req[r].new_jwt, net)
         IN  IF res.ok
             THEN /\ api' = Some(res.val)
                  /\ api_lock' = api_lock
                  /\ req' = [req EXCEPT ![r].pc = "write", ![r].update = "ok"]
             ELSE /\ api' = api
                  /\ api_lock' = 0
                  /\ req' = [req EXCEPT ![r].pc = "idle", ![r].update = "err",
                                        ![r].resp = 500]
    /\ UNCHANGED <<token_file, is_finished, serving, exit_fs, actorVars, calc>>

\* a handler that surfaces the failed write of the token file
update_jwt_write_Surfaces(r) ==
    /\ req[r].pc = "write"
    /\ \E w \in {"ok", "err", "truncated"} :
         /\ token_file' = CASE w = "ok" -> Some(req[r].new_jwt)
                            [] w = "err" -> token_file
                            [] w = "truncated" -> Some("")
         /\ req' = [req EXCEPT ![r].pc = "idle",
                               ![r].write = IF w = "ok" THEN "ok" ELSE "err",
                               ![r].resp = IF w = "ok" THEN 200 ELSE 500]
    /\ api_lock' = 0
    /\ UNCHANGED <<api, is_finished, serving, exit_fs, actorVars, calc>>

\* tokio::fs::write(PERSISTENT_JWT_STORAGE_PATH, new_jwt).await, warn on
\* Err, then Ok(()); a failed write leaves the file as it was or empty
update_jwt_write(r) ==
    /\ req[r].pc = "write"
    /\ \E w \in {"ok", "err", "truncated"} :
         /\ token_file' = CASE w = "ok" -> Some(req[r].new_jwt)
                            [] w = "err" -> token_file
                            [] w = "truncated" -> Some("")
         /\ req' = [req EXCEPT ![r].pc = "idle",
                               ![r].write = IF w = "ok" THEN "ok" ELSE "err",
                               ![r].resp = 200]
    /\ api_lock' = 0
    /\ UNCHANGED <<api, is_finished, serving, exit_fs, actorVars, calc>>

\* TimeoutLayer::new(Duration::from_secs(2)): a request still waiting for the
\* lock or in the remote call is dropped and answered 408
request_timeout(r) ==
    /\ req[r].pc \in {"wait", "call", "status_wait", "status_call"}
    /\ req' = [req EXCEPT ![r].pc = "idle", ![r].resp = 408]
    /\ api_lock' = IF api_lock = r THEN 0 ELSE api_lock
    /\ UNCHANGED <<api, token_file, is_finished, serving, exit_fs, actorVars, calc>>

\* GET /api/status is routed to get_status, which awaits app.duo.lock()
get_status_request(r) ==
    /\ req[r].pc = "idle"
    /\ serving = "serving"
    /\ req' = [req EXCEPT ![r] = [IdleReq EXCEPT !.route = "get_status",
                                          !.pc = "status_wait"]]
    /\ UNCHANGED <<api, api_lock, token_file, is_finished, serving, exit_fs, actorVars, calc>>

\* a status request that goes on without the guard
get_status_lock_NoGuard(r) ==
    /\ req[r].pc = "status_wait"
    /\ req' = [req EXCEPT ![r].pc = "status_call"]
    /\ UNCHANGED <<api, api_lock, token_file, is_finished, serving, exit_fs, actorVars, calc>>

\* get_status: app.duo.lock().await returns the guard
get_status_lock(r) ==
    /\ req[r].pc = "status_wait"
    /\ api_lock = 0
    /\ api_lock' = r
    /\ req' = [req EXCEPT ![r].pc = "status_call"]
    /\ UNCHANGED <<api, token_file, is_finished, serving, exit_fs, actorVars, calc>>

\* enforcer::block_all: remove_file, where NotFound is no error; another
\* error is logged and leaves the file
block_all(fs_ok) == IF fs_ok THEN FALSE ELSE is_finished

\* enforcer::disarm: fs::write(path, ""); an error is logged and leaves the
\* file as it was
disarm(fs_ok) == IF fs_ok THEN TRUE ELSE is_finished

\* a status computation that leaves the done file alone when blocked
get_status_inner_KeepsFile(r) ==
    /\ req[r].pc = "status_call"
    /\ \/ /\ req' = [req EXCEPT ![r].pc = "idle", ![r].resp = 500]
          /\ is_finished' = is_finished
       \/ /\ api # None
          /\ \E xp_today \in StatusXps, fs_ok \in BOOLEAN :
               LET blocked == xp_today < DAILY_XP_GOAL
               IN  /\ is_finished' = IF blocked THEN is_finished ELSE disarm(fs_ok)
                   /\ req' = [req EXCEPT
                                ![r].pc = "idle",
                                ![r].write = IF fs_ok THEN "ok" ELSE "err",
                                ![r].status = Some([xp_goal |-> DAILY_XP_GOAL,
                                                    xp_today |-> xp_today,
                                                    blocked |-> blocked]),
                                ![r].resp = 200]
    /\ api_lock' = 0
    /\ UNCHANGED <<api, token_file, serving, exit_fs, actorVars, calc>>

\* get_status_inner and the return of get_status: get_daily_progress fails
\* (it cannot succeed without a credential) and the handler answers 500, or
\* it reports xp_today, the done file is removed or created by the verdict,
\* and the handler answers 200 with the Status; the guard is dropped
get_status_inner(r) ==
    /\ req[r].pc = "status_call"
    /\ \/ /\ req' = [req EXCEPT ![r].pc = "idle", ![r].resp = 500]
          /\ is_finished' = is_finished
       \/ /\ api # None
          /\ \E xp_today \in StatusXps, fs_ok \in BOOLEAN :
               LET blocked == xp_today < DAILY_XP_GOAL
               IN  /\ is_finished' = IF blocked THEN block_all(fs_ok) ELSE disarm(fs_ok)
                   /\ req' = [req EXCEPT
                                ![r].pc = "idle",
                                ![r].write = IF fs_ok THEN "ok" ELSE "err",
                                ![r].status = Some([xp_goal |-> DAILY_XP_GOAL,
                                                    xp_today |-> xp_today,
                                                    blocked |-> blocked]),
                                ![r].resp = 200]
    /\ api_lock' = 0
    /\ UNCHANGED <<api, token_file, serving, exit_fs, actorVars, calc>>

\* shutdown_signal() resolves: the server accepts no further request and
\* lets the requests in flight finish
shutdown_signal ==
    /\ serving = "serving"
    /\ serving' = "draining"
    /\ UNCHANGED <<api, api_lock, req, token_file, is_finished, exit_fs, actorVars, calc>>

\* axum::serve returns once no request is in flight, then main calls
\* enforcer::block_all()
serve_returns ==
    /\ serving = "draining"
    /\ \A r \in Reqs : req[r].pc = "idle"
    /\ serving' = "stopped"
    /\ \E fs_ok \in BOOLEAN :
         /\ is_finished' = block_all(fs_ok)
         /\ exit_fs' = IF fs_ok THEN "ok" ELSE "err"
    /\ UNCHANGED <<api, api_lock, req, token_file, actorVars, calc>>

NextHttp ==
    \/ \E r \in Reqs : update_jwt_request(r)
    \/ \E r \in Reqs : update_jwt_lock(r)
    \/ \E r \in Reqs : update_jwt_call(r)
    \/ \E r \in Reqs : update_jwt_write(r)
    \/ \E r \in Reqs : get_status_request(r)
    \/ \E r \in Reqs : get_status_lock(r)
    \/ \E r \in Reqs : get_status_inner(r)
    \/ \E r \in Reqs : request_timeout(r)
    \/ shutdown_signal
    \/ serve_returns

SpecHttp == Init /\ [][NextHttp]_vars

(* --------------------- duolingo.rs: the cutoff alone ------------------- *)

\* the midnights the cutoff is evaluated on, whole hours in seconds
Midnights == {h * 3600 : h \in 0 .. MaxStamp}

\* one evaluation of the cutoff of get_daily_xp_progress
Reconcile ==
    /\ \E reported_midnight \in Midnights, midnight \in Midnights :
         calc' = Some([reported_midnight |-> reported_midnight,
                       midnight |-> midnight,
                       cutoff_ts |-> CutoffTs(reported_midnight, midnight)])
    /\ UNCHANGED <<actorVars, httpVars>>

NextCutoff == Reconcile

SpecCutoff == Init /\ [][NextCutoff]_vars

(* ---------------- duolingo.rs: the filter and the sum alone ------------ *)

\* the xp of the lessons the filter is evaluated on
GainXps == {10, 20}

\* the fetched lists the filter is evaluated on: up to MaxGains lessons, in
\* any order, times and xp may repeat
GainLists == UNION {[1 .. n -> [time : Time, xp : GainXps]] : n \in 0 .. MaxGains}

\* the evaluation of lessons_today and xp_today of one call of
\* get_daily_xp_progress, one call a run
FilterAndSum ==
    /\ calc = None
    /\ \E xp_gains \in GainLists, cutoff_ts \in Time :
         LET lessons_today == Filter(xp_gains, cutoff_ts)
         IN  calc' = Some([xp_gains |-> xp_gains,
                           cutoff_ts |-> cutoff_ts,
                           lessons_today |-> lessons_today,
                           xp_today |-> SumXp(lessons_today)])
    /\ UNCHANGED <<actorVars, httpVars>>

NextFilter == FilterAndSum

SpecFilter == Init /\ [][NextFilter]_vars

(* ------------------------------ claims --------------------------------- *)

\* the numeric fields, the lessons and the verdict of a status
Snapshot(s) == [blocked |-> s.blocked, xp_today |-> s.xp_today,
                xp_goal |-> s.xp_goal, lessons |-> s.lessons]

\* C1: after every successful poll, blocked is true exactly when the polled
\* xp_today is strictly less than the daily requirement of 100.
C1_BlockedIffBelow100 ==
    event \in PollSucceeded =>
        (st.blocked <=> prog[1].xp_today < DAILY_XP_GOAL)

\* C2: in every reachable status, xp_today is the sum of the xp of the
\* lessons held in the same status.
C2_XpTodayIsSumOfLessons ==
    st.xp_today = SumXp(st.lessons)

C2_Witness ==
    /\ event \in PollSucceeded
    /\ Len(st.lessons) >= 2
    /\ st.xp_today = st.lessons[1].xp + st.lessons[2].xp

\* C3: in every status a reader can see, blocked equals (xp_today < the
\* fixed requirement) for the xp_today of the same status, and only a
\* successful poll changes blocked.
C3_BlockedIsFunctionOfXp ==
    /\ [](lock = "free" => (st.blocked <=> st.xp_today < xp_req))
    /\ [][st'.blocked # st.blocked => event' \in PollSucceeded]_vars

C3_Witness ==
    /\ event \in PollFailed \cup {"UpdateOk", "UpdateFail"}
    /\ ~st.blocked
    /\ st.xp_today = xp_req

\* C4: a failed UpdateJWT of a Ready actor keeps the client and the status,
\* only last_error changes, to the failure reason; and an actor that has a
\* client never polls without one.
C4_FailedUpdateKeepsClient ==
    /\ [][(pc = "handle" /\ event' = "UpdateFail" /\ duo # None) =>
            /\ duo' = duo
            /\ Snapshot(st') = Snapshot(st)
            /\ \E net \in NewOutcomes :
                 LET r == DuolingoNew(cur.jwt, net)
                 IN  ~r.ok /\ st'.last_error = Some(Msg("JWT update failed: ", r.val))
            /\ UNCHANGED <<done_file, prog>>]_vars
    /\ [][(pc = "handle" /\ duo # None) => event' \notin PollWithoutClient]_vars

C4_Witness ==
    /\ event = "UpdateFail"
    /\ duo # None
    /\ prog # None
    /\ ~st.blocked

\* C5: a successful poll replaces xp_goal, xp_today and lessons by the
\* fetched snapshot's, and leaves last_error None unless the write of the
\* Done Marker failed.
C5_SuccessfulPollReplaces ==
    [][event' \in PollSucceeded =>
         /\ prog' # None
         /\ prog'[1] \in FetchResults
         /\ st'.xp_goal = prog'[1].xp_goal
         /\ st'.xp_today = prog'[1].xp_today
         /\ st'.lessons = prog'[1].lessons_today
         /\ (event' \notin PollWriteFailed => st'.last_error = None)]_vars

\* a successful poll that found lessons, with the goal the remote reports
C5_Witness ==
    /\ event \in PollSucceeded
    /\ st.last_error = None
    /\ st.lessons # << >>
    /\ st.xp_goal = 20

\* C6: a successful poll writes the Done Marker if and only if xp_today >=
\* 100; a poll yielding 60 leaves blocked true and writes no marker.
C6_MarkerIffQuotaOf100 ==
    event \in PollSucceeded =>
        /\ (event \in PollWroteMarker \cup PollWriteFailed) <=>
              (st.xp_today >= DAILY_XP_GOAL)
        /\ (event \in PollWriteFailed =>
              ~st.blocked /\ st.last_error = Some(Msg("Failed to write done file: ", "io")))

\* C7: a failed fetch of a Ready actor changes only last_error, to the poll
\* error; the Done Marker and the client are kept and the actor keeps
\* running.
C7_FailedPollChangesOnlyError ==
    [][(pc = "handle" /\ event' \in PollFailed) =>
         /\ duo # None
         /\ duo' = duo
         /\ Snapshot(st') = Snapshot(st)
         /\ \E e \in FetchErrors : st'.last_error = Some(Msg("Poll error: ", e))
         /\ pc' = "loop"
         /\ UNCHANGED <<done_file, prog>>]_vars

C7_Witness ==
    /\ event \in PollFailed
    /\ ~st.blocked
    /\ st.lessons # << >>
    /\ done_file # None

\* C8: a poll without a client keeps the actor running, sets last_error to
\* the fixed no-client message and changes nothing else; the status is at
\* its defaults as long as no poll has succeeded.
C8_PollWithoutClient ==
    /\ [][(pc = "handle" /\ event' \in PollWithoutClient) =>
            /\ duo = None /\ duo' = None
            /\ pc' = "loop"
            /\ st'.last_error = Some(NoClientMsg)
            /\ Snapshot(st') = Snapshot(st)
            /\ UNCHANGED <<done_file, prog>>]_vars
    /\ [](prog = None => Snapshot(st) = Snapshot(SharedStateDefault))

C8_Witness ==
    /\ event = "ForcePollNoClient"
    /\ pc = "loop"
    /\ st = [SharedStateDefault EXCEPT !.last_error = Some(NoClientMsg)]

\* the messages that report a failed init: "init error: ..." and
\* "No duolingo client available (JWT init failed)"
InitFailureString(m) == m.text \in {"init error: ", NoClientMsg.text}

\* C9: after a failed startup the actor has no client, last_error is the
\* init error and the rest of the status is at its defaults; when the timer
\* then fires, the status is still at its defaults and last_error is an
\* init-failure string.
C9_FailedStartup ==
    /\ [](event = "InitFail" =>
            /\ duo = None
            /\ pc = "loop"
            /\ Snapshot(st) = Snapshot(SharedStateDefault)
            /\ st.last_error # None
            /\ st.last_error[1].text = "init error: ")
    /\ [][(pc = "handle" /\ cur.cmd = "Timer" /\ duo = None /\ pc' # "handle") =>
            /\ event' = "TimerNoClient"
            /\ Snapshot(st') = Snapshot(SharedStateDefault)
            /\ st'.last_error # None
            /\ InitFailureString(st'.last_error[1])]_vars
    /\ [](duo = None /\ event \in PollWithoutClient =>
            /\ Snapshot(st) = Snapshot(SharedStateDefault)
            /\ st.last_error # None
            /\ InitFailureString(st.last_error[1]))

C9_Witness ==
    /\ event = "TimerNoClient"
    /\ duo = None
    /\ st = [SharedStateDefault EXCEPT !.last_error = Some(NoClientMsg)]

\* C10: a successful UpdateJWT installs the client built from the new token,
\* sets last_error to the "updated OK" message, leaves the rest of the
\* status alone and runs no poll.
C10_SuccessfulUpdate ==
    [][(pc = "handle" /\ event' = "UpdateOk") =>
         /\ cur.cmd = "UpdateJWT"
         /\ duo' = Some([jwt |-> cur.jwt, user_id |-> cur.jwt])
         /\ st'.last_error = Some(UpdatedOkMsg)
         /\ Snapshot(st') = Snapshot(st)
         /\ pc' = "loop"
         /\ UNCHANGED <<done_file, prog>>]_vars

\* the new client replaced another one, after a poll had succeeded
C10_Witness ==
    /\ event = "UpdateOk"
    /\ duo = Some([jwt |-> "jwtB", user_id |-> "jwtB"])
    /\ prog # None
    /\ st.lessons # << >>

\* C11: every command the channel accepts is handled at most once, and the
\* accepted commands are handled in the order they were sent: the queue only
\* grows at its end, by the command stamped next, and only shrinks at its
\* head, into the actor; the actor receives the stamps one after the other;
\* what is queued is what was accepted and not yet received, oldest first.
C11_HandledOnceInSendOrder ==
    /\ [][chan' # chan =>
            \/ /\ Len(chan') = Len(chan) + 1
               /\ chan' = Append(chan, chan'[Len(chan')])
               /\ chan'[Len(chan')].id = next_id
               /\ next_id' = (next_id + 1) % IdMod
               /\ UNCHANGED <<cur, handled>>
            \/ /\ chan # << >>
               /\ chan' = Tail(chan)
               /\ pc = "loop" /\ pc' = "handle"
               /\ cur' = Head(chan)
               /\ next_id' = next_id]_vars
    /\ [][handled' # handled =>
            /\ handled' = (handled + 1) % IdMod
            /\ cur'.id = handled'
            /\ chan' = Tail(chan)]_vars
    /\ [][(cur' # cur /\ cur'.cmd \notin {"None", "Timer"}) =>
            /\ chan # << >>
            /\ cur' = Head(chan)
            /\ handled' # handled]_vars
    /\ [](\A i \in 1 .. Len(chan) : chan[i].id = (handled + i) % IdMod)

\* the actor handles the older of two accepted commands while the newer one
\* waits, and it is not the first command it handles
C11_Witness ==
    /\ pc = "handle"
    /\ cur.cmd = "UpdateJWT"
    /\ cur.id = 1
    /\ Len(chan) = 1
    /\ chan[1].cmd = "ForcePoll"
    /\ chan[1].id = 2
    /\ event = "Sent"

\* C12: the actor stops exactly by dequeuing Shutdown or by finding the
\* channel empty and disconnected; stopping changes neither the status nor
\* the Done Marker (a disconnection records no error); once stopped it stays
\* stopped, receives no command (what is queued stays queued), runs no poll,
\* and the status, the client and the Done Marker never change again.
C12_StoppedIsFinal ==
    /\ [][pc = "stopped" =>
            /\ pc' = "stopped"
            /\ UNCHANGED <<st, committed, lock, duo, prog, done_file, chan,
                           handled, cur, active>>]_vars
    /\ [][(pc # "stopped" /\ pc' = "stopped") =>
            /\ \/ pc = "handle" /\ cur.cmd = "Shutdown"
               \/ pc = "loop" /\ chan = << >> /\ tx = "dropped"
            /\ UNCHANGED <<st, committed, duo, prog, done_file, chan>>]_vars
    /\ [][(pc = "handle" /\ cur.cmd = "Shutdown" /\ pc' # pc) =>
            pc' = "stopped"]_vars
    /\ [](pc = "loop" /\ chan = << >> /\ tx = "dropped" =>
            ~ENABLED RecvTimeout /\ ~ENABLED RecvCommand)

\* a stopped actor after a successful poll, with a command queued behind the
\* Shutdown it dequeued, and a later send refused
C12_Witness ==
    /\ pc = "stopped"
    /\ chan # << >>
    /\ prog # None
    /\ event = "SendFailed"

\* C13: at most one poll or command handling is in execution at any time:
\* whatever executes is the one thing the control loop received last, and
\* nothing executes while the loop waits.
C13_OneAtATime ==
    /\ Cardinality(active) <= 1
    /\ (pc \in {"handle", "locked"} => active = {cur.cmd})
    /\ (pc \notin {"handle", "locked"} => active = {})

\* a timer-driven poll is in execution while a ForcePoll waits its turn
C13_Witness ==
    /\ pc = "locked"
    /\ active = {"Timer"}
    /\ chan # << >>
    /\ chan[1].cmd = "ForcePoll"

\* C14: every status the web layer reads is the status as the last whole
\* actor update left it, and a whole update never leaves new numbers with an
\* old verdict; no web-layer operation modifies the status.
C14_ConsistentStatusReads ==
    /\ [][event' = "GetStatus" => st = committed /\ st' = st]_vars
    /\ [][event' \in {"GetStatus", "Sent", "SendFailed"} =>
            UNCHANGED <<st, committed>>]_vars
    /\ [](committed.blocked <=> committed.xp_today < xp_req)
    /\ [](committed.xp_today = SumXp(committed.lessons))
    /\ [](event \in PollWriteFailed => committed.last_error # None)

\* a status read while the actor is in the remote call of a poll, after a
\* poll that had unblocked
C14_Witness ==
    /\ event = "GetStatus"
    /\ pc = "handle"
    /\ cur.cmd = "ForcePoll"
    /\ duo # None
    /\ ~st.blocked


\* C15: the cutoff is a function of the two midnights alone: the reported
\* midnight when the local midnight is earlier than it, the local midnight
\* otherwise; (T, T) gives T, a local midnight an hour after the reported
\* T gives T + 3600, and one an hour before it gives T.
C15_CutoffIsLaterMidnight ==
    /\ calc # None =>
         calc[1].cutoff_ts = IF calc[1].midnight < calc[1].reported_midnight
                             THEN calc[1].reported_midnight
                             ELSE calc[1].midnight
    /\ \A T \in Midnights \ {0, MaxStamp * 3600} :
         /\ CutoffTs(T, T) = T
         /\ CutoffTs(T, T + 3600) = T + 3600
         /\ CutoffTs(T, T - 3600) = T

\* the local midnight is an hour after the reported one
C15_Witness ==
    /\ calc # None
    /\ calc[1].midnight = calc[1].reported_midnight + 3600
    /\ calc[1].cutoff_ts = calc[1].reported_midnight + 3600

\* a command cannot be delivered: CMD_TX was never set, the channel is full,
\* or the actor has stopped
Undeliverable == tx # "installed" \/ Len(chan) >= ChanCap \/ pc = "stopped"

\* C16: a web-layer send is never blocked; when the command cannot be
\* delivered the operation fails and the channel, the stamps and the actor
\* are as before, so the command is never handled; a send is only accepted
\* when the command can be delivered.
C16_UndeliverableIsRefused ==
    /\ [](ENABLED force_poll_now /\ ENABLED update_jwt_server)
    /\ [][(event' = "SendFailed" /\ event # "SendFailed") =>
            /\ Undeliverable
            /\ UNCHANGED <<chan, next_id, handled, cur, pc, st, duo, prog,
                           done_file, active>>]_vars
    /\ [][(event' = "Sent" /\ chan' # chan) => ~Undeliverable]_vars
    /\ [][(Undeliverable /\ event' \in {"Sent", "SendFailed"}) =>
            UNCHANGED <<chan, next_id>>]_vars

\* a send refused by a running actor whose channel is full
C16_Witness ==
    /\ event = "SendFailed"
    /\ tx = "installed"
    /\ pc = "handle"
    /\ Len(chan) = ChanCap

C18_CommandsKeepDeadline ==
    [][(pc \in {"handle", "locked"} /\ cur.cmd \in {"UpdateJWT", "ForcePoll"}
        /\ pc' = "loop") => deadline' = deadline]_vars

InRemoteCall ==
    \/ pc = "init"
    \/ pc = "handle" /\ cur.cmd = "UpdateJWT"
    \/ pc = "handle" /\ cur.cmd \in PollKinds /\ duo # None

\* C20: the actor never holds the lock of the status while it is in a
\* remote call; it holds it only between the return of a successful fetch
\* and the end of that poll, so a reader is served during every remote call.
C20_NoLockAcrossRemoteCall ==
    /\ (InRemoteCall => lock = "free" /\ ENABLED get_status)
    /\ (lock = "actor" <=> pc = "locked")

\* a reader was served while the timer-driven poll of a Ready actor is in
\* its fetch
C20_Witness ==
    /\ InRemoteCall
    /\ cur.cmd = "Timer"
    /\ event = "GetStatus"
    /\ prog # None

\* the indices of the fetched lessons that are later than the cutoff
LaterThan(gains, cutoff_ts) == {i \in DOMAIN gains : gains[i].time > cutoff_ts}

\* the xp of the lessons of gains at the indices I, added up
RECURSIVE XpAt(_, _)
XpAt(gains, I) ==
    IF I = {} THEN 0
    ELSE LET i == CHOOSE j \in I : TRUE
         IN  gains[i].xp + XpAt(gains, I \ {i})

\* C21: for every fetched list and every cutoff, lessons_today is the
\* sub-list, in the original order, of the fetched lessons whose time is
\* strictly greater than the cutoff (a lesson at the cutoff is left out),
\* and xp_today is the sum of the xp of exactly those lessons.
C21_FilterAndSum ==
    calc # None =>
       LET c == calc[1]
           kept == LaterThan(c.xp_gains, c.cutoff_ts)
       IN  /\ Len(c.lessons_today) = Cardinality(kept)
           /\ \A i \in kept :
                c.lessons_today[Cardinality({j \in kept : j <= i})] = c.xp_gains[i]
           /\ \A l \in 1 .. Len(c.lessons_today) : c.lessons_today[l].time > c.cutoff_ts
           /\ c.xp_today = XpAt(c.xp_gains, kept)

\* a list out of chronological order with a lesson at the cutoff between
\* two later lessons of different xp
C21_Witness ==
    /\ calc # None
    /\ calc[1].cutoff_ts = 1
    /\ calc[1].xp_gains = <<[time |-> 2, xp |-> 20], [time |-> 1, xp |-> 10],
                            [time |-> 2, xp |-> 10]>>
    /\ calc[1].lessons_today = <<[time |-> 2, xp |-> 20], [time |-> 2, xp |-> 10]>>
    /\ calc[1].xp_today = 30

\* the status reports a failed poll: no poll and no UpdateJWT has been
\* handled since
PollErrorStands ==
    /\ st.last_error # None
    /\ st.last_error[1].text = "Poll error: "

\* the step ends a poll
PollEnds == pc \in {"handle", "locked"} /\ cur.cmd \in PollKinds /\ pc' = "loop"

\* C22, the parts about the failed poll itself: it leaves the actor running
\* with the same client, and a fetch only follows the receipt of a timer
\* expiry (deadline passed, nothing queued) or of a ForcePoll.
C22_NotFatalNoExtraFetch ==
    /\ [][(pc = "handle" /\ event' \in PollFailed) =>
            /\ pc' = "loop"
            /\ duo # None /\ duo' = duo]_vars
    /\ [][(pc = "loop" /\ pc' = "handle" /\ cur'.cmd = "Timer") =>
            deadline <= 0 /\ chan = << >>]_vars
    /\ [][(prog' # prog \/ (event' \in PollFailed /\ event' # event)) =>
            pc = "handle" /\ cur.cmd \in PollKinds /\ duo # None]_vars

\* C22: a failed poll is not fatal and is not retried before the next timer
\* deadline or a ForcePoll, and it is retried at the next timer tick: while
\* the failure stands, nothing but a poll moves that tick away.
C22_FailedPollRetriedAtNextTick ==
    /\ C22_NotFatalNoExtraFetch
    /\ [][(PollErrorStands /\ ~PollEnds) => deadline' <= deadline]_vars

\* request r is between the return of app.duo.lock() and the end of its
\* handler
UsesClient(r) == req[r].pc \in {"call", "write", "status_call"}

\* C23: each GET /api/status and each POST /api/update_jwt holds the client
\* lock from the moment it has it to the end of the handler, the remote call
\* included, so no two requests use the client at the same time, the client
\* changes only under the lock of the update that changes it, and no status
\* fetch runs while an update is under way.
C23_ClientLockExclusive ==
    /\ [](\A r \in Reqs : UsesClient(r) <=> api_lock = r)
    /\ [](\A r1, r2 \in Reqs : (UsesClient(r1) /\ UsesClient(r2)) => r1 = r2)
    /\ [](\A r1, r2 \in Reqs :
            (req[r1].pc = "status_call" /\ req[r2].route = "update_jwt") =>
               req[r2].pc \in {"idle", "wait"})
    /\ [][\A r \in Reqs : (api_lock = r /\ api_lock' # r) => req'[r].pc = "idle"]_vars
    /\ [][api' # api =>
            \E r \in Reqs : api_lock = r /\ req[r].pc = "call" /\ api_lock' = r]_vars

\* a status request waits for the lock while a credential update is in its
\* remote call
C23_Witness ==
    \E r1, r2 \in Reqs :
       /\ req[r1].pc = "call"
       /\ api_lock = r1
       /\ req[r2].pc = "status_wait"

\* the step ends the status computation of request r with the answer code
StatusAnswered(r, code) ==
    /\ req[r].pc = "status_call"
    /\ req'[r].pc = "idle"
    /\ req'[r].resp = code

\* C24, the parts about the status computation: after a successful one whose
\* file operation succeeds the done file exists exactly if the returned
\* blocked is false, and blocked is xp_today < DAILY_XP_GOAL; a failed fetch
\* leaves the file as it was.
C24_StatusSetsDoneFile ==
    /\ [][\A r \in Reqs :
            (StatusAnswered(r, 200) /\ req'[r].write = "ok") =>
               /\ req'[r].status # None
               /\ req'[r].status[1].blocked = (req'[r].status[1].xp_today < DAILY_XP_GOAL)
               /\ is_finished' = ~req'[r].status[1].blocked]_vars
    /\ [][\A r \in Reqs :
            StatusAnswered(r, 500) =>
               /\ req'[r].status = None
               /\ is_finished' = is_finished]_vars

\* C24: the status computation sets the done file by its verdict, and once
\* the server has stopped serving the done file does not exist, whatever the
\* last status was.
C24_DoneFileRemovedAtStop ==
    /\ C24_StatusSetsDoneFile
    /\ [](serving = "stopped" => ~is_finished)

\* C24, amended: the status computation sets the done file by its verdict;
\* when the server stops serving, whatever the last status was, the removal
\* of the done file is attempted once no request is in flight: if it
\* succeeds the file is gone for good, if it fails the file stays as it was.
C24_DoneFileRemovalAttemptedAtStop ==
    /\ C24_StatusSetsDoneFile
    /\ [][(serving # "stopped" /\ serving' = "stopped") =>
            /\ \A r \in Reqs : req[r].pc = "idle"
            /\ exit_fs' \in {"ok", "err"}
            /\ exit_fs' = "ok" => ~is_finished'
            /\ exit_fs' = "err" => is_finished' = is_finished]_vars
    /\ []((serving = "stopped" /\ exit_fs = "ok") => ~is_finished)
    /\ [][serving = "stopped" => UNCHANGED <<is_finished, req>>]_vars

\* the last status was unblocked and created the done file, and the stop of
\* the server has removed it
C24_Witness ==
    /\ serving = "stopped"
    /\ exit_fs = "ok"
    /\ ~is_finished
    /\ \E r \in Reqs :
          /\ req[r].resp = 200
          /\ req[r].write = "ok"
          /\ req[r].status # None
          /\ req[r].status[1].xp_today = DAILY_XP_GOAL
          /\ ~req[r].status[1].blocked
          /\ \A r2 \in Reqs \ {r} : req[r2].route = "none"

====
